---- MODULE Spec2Model ----
(***************************************************************************)
(* The watch-mode rerun engine of AVA (class Watcher and its Debouncer,    *)
(* lib/watcher.js): filesystem events are debounced into a dirty batch,    *)
(* runAfterChanges() decides which test files to rerun, run() hands a run  *)
(* to the execution engine (api.run), whose telemetry feeds the ledgers.   *)
(*                                                                         *)
(* JavaScript is single-threaded: every handler below is one action.  An   *)
(* `await` splits a handler in two: the part before it, and a continuation *)
(* that is queued as a microtask when the awaited promise settles.  All    *)
(* queued microtasks run, in order, before the next event (macrotask).     *)
(***************************************************************************)
EXTENDS Integers, Sequences, FiniteSets, TLC

\* The number of external inputs (fs events, stdin lines, telemetry events)
\* a behaviour receives.
MaxInputs == 3

\* The number of inputs of the behaviours in which commands make runs overlap.
MaxOverlapInputs == 5

\* The number of fs events of one burst, for the behaviours that consist of
\* fs events and runs alone.
MaxEvents == 6

----------------------------------------------------------------------------
\* Paths of the project tree, and what the external collaborators say of them.

TestFiles == {"t1", "t2"}
SourceFiles == {"s1", "s2"}
IgnoredFiles == {"ig"}
Paths == TestFiles \cup SourceFiles \cup IgnoredFiles

\* Object.keys() enumerates in insertion order; the model enumerates the keys
\* of dirtyStates in this fixed order.
PathOrder == <<"t1", "t2", "s1", "s2", "ig">>

\* classify(path, globs) of ./globs.js
classify(path) ==
  [isIgnoredByWatcher |-> path \in IgnoredFiles, isTest |-> path \in TestFiles]

\* A change-ignore provider ({main} of providers), such as the TypeScript
\* provider: changes of the sources it compiles are ignored, and a test file
\* it compiles resolves to the build output.
CompilingProvider ==
  [ignoreChange |-> {"t1"},
   resolveTestFile |-> [p \in Paths |-> IF p = "t1" THEN "s2" ELSE p]]

\* The constructor's arguments: the providers, and the filter, each pattern
\* of which is given by the set of files it matches.
Configurations ==
  { [providers |-> <<>>, filter |-> <<>>],
    [providers |-> <<CompilingProvider>>, filter |-> <<>>],
    [providers |-> <<>>, filter |-> <<{"t1"}>>] }

----------------------------------------------------------------------------
\* Arrays

SeqToSet(s) == {s[i] : i \in DOMAIN s}

includes(s, x) == \E i \in DOMAIN s : s[i] = x

RECURSIVE flat(_)
flat(ss) == IF ss = <<>> THEN <<>> ELSE Head(ss) \o flat(Tail(ss))

\* [...new Set(s)]: the first occurrence of every element, in order
RECURSIVE unique(_)
unique(s) ==
  IF s = <<>> THEN <<>>
  ELSE LET init == unique(SubSeq(s, 1, Len(s) - 1))
           last == s[Len(s)]
       IN IF includes(init, last) THEN init ELSE Append(init, last)

\* The index of the first element of s that satisfies Test, 0 if none.
FirstIndex(s, Test(_)) ==
  IF \E i \in DOMAIN s : Test(s[i])
  THEN CHOOSE i \in DOMAIN s : Test(s[i]) /\ \A j \in 1..(i - 1) : ~Test(s[j])
  ELSE 0

----------------------------------------------------------------------------
\* Debounce delays, held in quarter milliseconds so that halving is exact
\* (100, 50, 25, 12.5, 6.25).

MIN_DEBOUNCE_DELAY == 10
INITIAL_DEBOUNCE_DELAY == 100
Ms(n) == 4 * n
Max(a, b) == IF a >= b THEN a ELSE b

\* A debounce delay without the floor of MIN_DEBOUNCE_DELAY
debounceDelayWithoutFloor(delay) ==
  IF delay # 0 THEN delay ELSE Ms(INITIAL_DEBOUNCE_DELAY)

\* delay = delay ? Math.max(delay, MIN_DEBOUNCE_DELAY) : INITIAL_DEBOUNCE_DELAY
\* (0 stands for an absent delay)
debounceDelay(delay) ==
  IF delay # 0 THEN Max(delay, Ms(MIN_DEBOUNCE_DELAY)) ELSE Ms(INITIAL_DEBOUNCE_DELAY)

Halved(delay) == delay \div 2

----------------------------------------------------------------------------
VARIABLES
  pc,                      \* "constructing", "watching" or "exited"
  options,                 \* the constructor's {providers, filter}
  budget,                  \* the number of inputs the environment delivers
  \* Watcher
  clearLogOnNextRun, runVector, previousFiles, busy,
  testDependencies, temporaryFiles, touchedFiles,
  filesWithExclusiveTests, filesWithFailures, dirtyStates,
  \* Debouncer
  timer, again,
  \* the event loop
  timeouts,                \* the armed setTimeout timers
  awaiting,                \* continuations waiting for a run's promise
  microtasks,              \* continuations ready to resume
  pendingThrow,            \* the scheduled setImmediate(() => {throw error})
  \* the execution engine
  runs,                    \* the runs in flight
  engineCalls,             \* the number of api.run() calls
  lastRun,                 \* the most recent api.run() call
  \* bookkeeping
  lastDecision,            \* the most recent runAfterChanges() call
  timerCount, inputs,
  \* start() and plan()
  plan,                    \* the generator: its position, locals and timer
  instructions,            \* the instructions of the most recent yield
  yields,                  \* the number of instructions yielded
  received,                \* the lines read since the last instructions
  finalized                \* the changed files signalled and not yet run

vars ==
  <<pc, options, budget, clearLogOnNextRun, runVector, previousFiles, busy,
    testDependencies, temporaryFiles, touchedFiles, filesWithExclusiveTests,
    filesWithFailures, dirtyStates, timer, again, timeouts, awaiting,
    microtasks, pendingThrow, runs, engineCalls, lastRun, lastDecision,
    timerCount, inputs, plan, instructions, yields, received, finalized>>

planVars == <<plan, instructions, yields, received, finalized>>

providers == options.providers
filter == options.filter

NoDirtyStates == [p \in Paths |-> "none"]

----------------------------------------------------------------------------
\* DependencyTracker

\* The dependencies as reported, no rewritten path added
asReported(file, dependencies, mains) == dependencies

RECURSIVE withRewritten(_, _, _)
withRewritten(file, dependencies, mains) ==
  IF mains = <<>> THEN dependencies
  ELSE LET rewritten == Head(mains).resolveTestFile[file]
       IN withRewritten(file,
                        IF includes(dependencies, rewritten) THEN dependencies
                        ELSE <<rewritten>> \o dependencies,
                        Tail(mains))

\* An update that adds the dependencies to those the entry holds
mergeTestDependencies(deps, file, dependencies) ==
  LET rewritten == withRewritten(file, dependencies, providers)
      i == FirstIndex(deps, LAMBDA dep : dep.file = file)
  IN IF i # 0
     THEN [deps EXCEPT ![i].dependencies = unique(@ \o rewritten)]
     ELSE IF Len(rewritten) = 0 THEN deps
          ELSE Append(deps, [file |-> file, dependencies |-> rewritten])

updateTestDependencies(deps, file, dependencies) ==
  LET rewritten == withRewritten(file, dependencies, providers)
      i == FirstIndex(deps, LAMBDA dep : dep.file = file)
  IN IF Len(rewritten) = 0
     THEN SelectSeq(deps, LAMBDA dep : dep.file # file)
     ELSE IF i # 0
          THEN [deps EXCEPT ![i].dependencies = rewritten]
          ELSE Append(deps, [file |-> file, dependencies |-> rewritten])

\* TestDependency.contains
contains(dep, dependency) == includes(dep.dependencies, dependency)

\* this.testDependencies.filter(dep => dep.contains(path)).map(dep => dep.file)
dependentsOf(deps, path) ==
  LET hits == SelectSeq(deps, LAMBDA dep : contains(dep, path))
  IN [i \in DOMAIN hits |-> hits[i].file]

----------------------------------------------------------------------------
\* ExclusivityTracker

updateExclusivity(exclusive, file, hasExclusiveTests) ==
  LET index == FirstIndex(exclusive, LAMBDA f : f = file)
  IN IF hasExclusiveTests /\ index = 0 THEN Append(exclusive, file)
     ELSE IF ~hasExclusiveTests /\ index # 0
          THEN SubSeq(exclusive, 1, index - 1)
               \o SubSeq(exclusive, index + 1, Len(exclusive))
          ELSE exclusive

\* A file ran exclusive tests whenever it declared more tests than it selected
declaredExceedsSelected(fileStats) ==
  fileStats.declaredTests > fileStats.selectedTests

\* The ranExclusiveTests of trackExclusivity
ranExclusiveTests(fileStats) ==
  fileStats.selectedTests > 0 /\ fileStats.declaredTests > fileStats.selectedTests

----------------------------------------------------------------------------
\* FailureLedger

\* A pruneFailures() that drops the filtered ledger instead of assigning it
pruneFailuresDiscarded(failures, files) == failures

pruneFailures(failures, files) ==
  SelectSeq(failures, LAMBDA state : state.file \notin SeqToSet(files))

\* A countFailure() that pushes a record for every failure
countFailureAppending(failures, file, vector) ==
  Append(failures, [file |-> file, vector |-> vector, count |-> 1])

\* A countFailure() that restamps the record it increments
countFailureRestamping(failures, file, vector) ==
  LET i == FirstIndex(failures, LAMBDA state : state.file = file)
  IN IF i # 0
     THEN [failures EXCEPT ![i].count = @ + 1, ![i].vector = vector]
     ELSE Append(failures, [file |-> file, vector |-> vector, count |-> 1])

countFailure(failures, file, vector) ==
  LET i == FirstIndex(failures, LAMBDA state : state.file = file)
  IN IF i # 0
     THEN [failures EXCEPT ![i].count = @ + 1]
     ELSE Append(failures, [file |-> file, vector |-> vector, count |-> 1])

\* A sum that also counts the records of the given vector itself
RECURSIVE sumFailuresUpTo(_, _)
sumFailuresUpTo(failures, beforeVector) ==
  IF failures = <<>> THEN 0
  ELSE (IF Head(failures).vector <= beforeVector THEN Head(failures).count ELSE 0)
       + sumFailuresUpTo(Tail(failures), beforeVector)

RECURSIVE sumPreviousFailures(_, _)
sumPreviousFailures(failures, beforeVector) ==
  IF failures = <<>> THEN 0
  ELSE (IF Head(failures).vector < beforeVector THEN Head(failures).count ELSE 0)
       + sumPreviousFailures(Tail(failures), beforeVector)

----------------------------------------------------------------------------
\* The three ledgers a deleted test file is retired from.

Ledgers(deps, exclusive, failures) ==
  [testDependencies |-> deps, filesWithExclusiveTests |-> exclusive,
   filesWithFailures |-> failures]

RECURSIVE cleanUnlinkedTests(_, _)
cleanUnlinkedTests(ledgers, unlinkedTests) ==
  IF unlinkedTests = <<>> THEN ledgers
  ELSE LET testFile == Head(unlinkedTests)
       IN cleanUnlinkedTests(
            Ledgers(updateTestDependencies(ledgers.testDependencies, testFile, <<>>),
                    updateExclusivity(ledgers.filesWithExclusiveTests, testFile, FALSE),
                    pruneFailures(ledgers.filesWithFailures, <<testFile>>)),
            Tail(unlinkedTests))

----------------------------------------------------------------------------
\* RunDriver: Watcher.run

\* A run() that forgets this.runVector++
SameRunVector(vector) == vector

NextRunVector(vector) == vector + 1

\* A reconciliation that runs the exclusive files alone
reconcileWithoutRemaining(specificFiles, exclusive) ==
  LET exclusiveFiles == SelectSeq(specificFiles, LAMBDA file : includes(exclusive, file))
      runOnlyExclusive == Len(exclusiveFiles) # Len(exclusive)
  IN [runOnlyExclusive |-> runOnlyExclusive,
      specificFiles |-> IF runOnlyExclusive THEN exclusive ELSE specificFiles]

\* A reconciliation that compares the exclusive files of the request with the
\* request, not with the exclusive set
reconcileAgainstRequest(specificFiles, exclusive) ==
  LET exclusiveFiles == SelectSeq(specificFiles, LAMBDA file : includes(exclusive, file))
      runOnlyExclusive == Len(exclusiveFiles) # Len(specificFiles)
      remainingFiles == SelectSeq(specificFiles, LAMBDA file : ~includes(exclusiveFiles, file))
  IN [runOnlyExclusive |-> runOnlyExclusive,
      specificFiles |-> IF runOnlyExclusive THEN exclusive \o remainingFiles
                        ELSE specificFiles]

\* The exclusivity reconciliation of run(): the files that previously contained
\* exclusive tests are always run, together with the remaining specific files.
reconcile(specificFiles, exclusive) ==
  LET exclusiveFiles == SelectSeq(specificFiles, LAMBDA file : includes(exclusive, file))
      runOnlyExclusive == Len(exclusiveFiles) # Len(exclusive)
      remainingFiles == SelectSeq(specificFiles, LAMBDA file : ~includes(exclusiveFiles, file))
  IN [runOnlyExclusive |-> runOnlyExclusive,
      specificFiles |-> IF runOnlyExclusive THEN exclusive \o remainingFiles
                        ELSE specificFiles]

\* applyTestFileFilter of ./globs.js: the files some pattern matches
applyTestFileFilter(patterns, testFiles) ==
  SelectSeq(testFiles, LAMBDA file : \E i \in DOMAIN patterns : file \in patterns[i])

\* A run() that leaves this.clearLogOnNextRun as it finds it
clearLogAsFound(clearLog, vector) == clearLog

\* this.clearLogOnNextRun after run(): set again on every run but the first
clearLogOnLaterRun(clearLog, vector) == IF vector > 0 THEN TRUE ELSE clearLog

\* What run(specificFiles, updateSnapshots) assigns and hands to api.run(),
\* given the clearLogOnNextRun flag and the ledgers it finds.
run(specificFiles, updateSnapshots, clearLog, exclusive, failures) ==
  LET vector == NextRunVector(runVector)
      reconciled == IF Len(specificFiles) > 0
                    THEN reconcile(specificFiles, exclusive)
                    ELSE [runOnlyExclusive |-> FALSE, specificFiles |-> specificFiles]
      files == IF Len(specificFiles) > 0 /\ Len(filter) > 0
               THEN applyTestFileFilter(filter, reconciled.specificFiles)
               ELSE reconciled.specificFiles
      pruned == IF Len(specificFiles) > 0 THEN pruneFailures(failures, files)
                ELSE failures
  IN [clearLogOnNextRun |-> clearLogOnLaterRun(clearLog, runVector),
      runVector |-> vector,
      filesWithFailures |-> pruned,
      previousFiles |-> files,
      call |-> [specificFiles |-> specificFiles,
                reconciled |-> reconciled.specificFiles,
                files |-> files,
                clearLogOnNextRun |-> clearLog /\ runVector > 0,
                previousFailures |-> sumPreviousFailures(pruned, vector),
                runOnlyExclusive |-> reconciled.runOnlyExclusive,
                runVector |-> vector,
                updateSnapshots |-> updateSnapshots]]

\* A rerunAll() that selects the files that had exclusive tests
rerunAllExclusive(clearLog, exclusive, failures) ==
  run(exclusive, FALSE, clearLog, exclusive, failures)

\* rerunAll(): run() without specific files
rerunAll(clearLog, exclusive, failures) ==
  run(<<>>, FALSE, clearLog, exclusive, failures)

\* updatePreviousSnapshots(): run(this.previousFiles, true)
updatePreviousSnapshots(previous, clearLog, exclusive, failures) ==
  run(previous, TRUE, clearLog, exclusive, failures)

NoRun ==
  [specificFiles |-> <<>>, reconciled |-> <<>>, files |-> <<>>,
   clearLogOnNextRun |-> FALSE, previousFailures |-> 0, runOnlyExclusive |-> FALSE,
   runVector |-> 0, updateSnapshots |-> FALSE]

\* The assignments of run() and its call of api.run(): this.busy is the
\* promise of the new run.
Dispatch(r) ==
  /\ clearLogOnNextRun' = r.clearLogOnNextRun
  /\ runVector' = r.runVector
  /\ filesWithFailures' = r.filesWithFailures
  /\ touchedFiles' = {}
  /\ previousFiles' = r.previousFiles
  /\ engineCalls' = engineCalls + 1
  /\ busy' = engineCalls + 1
  /\ runs' = runs \cup {[id |-> engineCalls + 1, files |-> r.call.files,
                         emitted |-> FALSE, currentVector |-> 0]}
  /\ lastRun' = r.call

----------------------------------------------------------------------------
\* RerunDecisionEngine: Watcher.runAfterChanges

keys(dirty) == SelectSeq(PathOrder, LAMBDA path : dirty[path] # "none")

\* A first filter that knows the temporary files only
notTemporary(dirty, touched, temporary) ==
  SelectSeq(keys(dirty), LAMBDA path : path \notin temporary)

\* A first filter that knows the touched files only
notTouched(dirty, touched, temporary) ==
  SelectSeq(keys(dirty), LAMBDA path : path \notin touched)

\* The first filter: a touched file is consumed, a temporary file is kept.
notSelfInflicted(dirty, touched, temporary) ==
  SelectSeq(keys(dirty), LAMBDA path : path \notin touched /\ path \notin temporary)

RECURSIVE notIgnoredByProviders(_, _)
notIgnoredByProviders(dirtyPaths, mains) ==
  IF mains = <<>> THEN dirtyPaths
  ELSE notIgnoredByProviders(
         SelectSeq(dirtyPaths, LAMBDA path : path \notin Head(mains).ignoreChange),
         Tail(mains))

unlinkedTestsOf(dirty, dirtyPaths) ==
  SelectSeq(dirtyPaths, LAMBDA filePath :
    /\ ~classify(filePath).isIgnoredByWatcher
    /\ classify(filePath).isTest
    /\ dirty[filePath] = "unlink")

\* A partition that takes every dirty test for added or changed
anyDirtyTestsOf(dirty, dirtyPaths) ==
  SelectSeq(dirtyPaths, LAMBDA filePath :
    /\ ~classify(filePath).isIgnoredByWatcher
    /\ classify(filePath).isTest)

addedOrChangedTestsOf(dirty, dirtyPaths) ==
  SelectSeq(dirtyPaths, LAMBDA filePath :
    /\ ~classify(filePath).isIgnoredByWatcher
    /\ classify(filePath).isTest
    /\ dirty[filePath] # "unlink")

dirtyHelpersAndSourcesOf(dirtyPaths) ==
  SelectSeq(dirtyPaths, LAMBDA filePath :
    /\ ~classify(filePath).isIgnoredByWatcher
    /\ ~classify(filePath).isTest)

\* A check that never finds the batch made up of deleted tests
neverOnlyTestsDeleted(unlinkedTests, dirtyPaths) == FALSE

\* No need to rerun tests if the only change is that tests were deleted
onlyTestsDeleted(unlinkedTests, dirtyPaths) == Len(unlinkedTests) = Len(dirtyPaths)

testsByHelpersOrSourceOf(deps, dirtyHelpersAndSources) ==
  SelectSeq([i \in DOMAIN dirtyHelpersAndSources |->
               dependentsOf(deps, dirtyHelpersAndSources[i])],
            LAMBDA tests : Len(tests) > 0)

\* A check that falls back only when no source file at all could be traced
noneTraceable(testsByHelpersOrSource, dirtyHelpersAndSources) ==
  Len(testsByHelpersOrSource) = 0

\* Source files were changed that could not be traced to specific tests
untraceable(testsByHelpersOrSource, dirtyHelpersAndSources) ==
  Len(testsByHelpersOrSource) # Len(dirtyHelpersAndSources)

\* A rerun of the dependents alone, without the changed tests
dependentsOnly(addedOrChangedTests, testsByHelpersOrSource) ==
  unique(flat(testsByHelpersOrSource))

\* [...new Set([addedOrChangedTests, testsByHelpersOrSource].flat(2))]
affectedTests(addedOrChangedTests, testsByHelpersOrSource) ==
  unique(addedOrChangedTests \o flat(testsByHelpersOrSource))

\* The argument of the this.run() call that ends runAfterChanges.
filesToRun(addedOrChangedTests, dirtyHelpersAndSources, testsByHelpersOrSource) ==
  IF Len(dirtyHelpersAndSources) = 0 THEN addedOrChangedTests
  ELSE IF untraceable(testsByHelpersOrSource, dirtyHelpersAndSources) THEN <<>>
       ELSE affectedTests(addedOrChangedTests, testsByHelpersOrSource)

\* runAfterChanges() up to its this.run() call: the ledgers it leaves, and
\* whether and for which files it calls this.run().
runAfterChanges(dirty, touched, temporary, deps, exclusive, failures) ==
  LET dirtyPaths ==
        notIgnoredByProviders(notSelfInflicted(dirty, touched, temporary), providers)
      unlinkedTests == unlinkedTestsOf(dirty, dirtyPaths)
      addedOrChangedTests == addedOrChangedTestsOf(dirty, dirtyPaths)
      dirtyHelpersAndSources == dirtyHelpersAndSourcesOf(dirtyPaths)
      ledgers == cleanUnlinkedTests(Ledgers(deps, exclusive, failures), unlinkedTests)
  IN [touchedFiles |-> touched \ SeqToSet(keys(dirty)),
      ledgers |-> ledgers,
      reruns |-> ~onlyTestsDeleted(unlinkedTests, dirtyPaths),
      specificFiles |->
        filesToRun(addedOrChangedTests, dirtyHelpersAndSources,
                   testsByHelpersOrSourceOf(ledgers.testDependencies,
                                            dirtyHelpersAndSources))]

NoDecision == [dirtyStates |-> NoDirtyStates, reruns |-> FALSE, specificFiles |-> <<>>]

----------------------------------------------------------------------------
\* Debouncer

Debouncer == [timer |-> timer, again |-> again, timeouts |-> timeouts,
              timerCount |-> timerCount]

SetDebouncer(d) ==
  /\ timer' = d.timer
  /\ again' = d.again
  /\ timeouts' = d.timeouts
  /\ timerCount' = d.timerCount

debouncerVars == <<timer, again, timeouts, timerCount>>

\* A debounce() that restarts a pending timer from the default delay
debounceRestarting(d, delay) ==
  [d EXCEPT !.timer = d.timerCount + 1,
            !.timerCount = d.timerCount + 1,
            !.timeouts = {t \in d.timeouts : t.id # d.timer} \cup
               {[id |-> d.timerCount + 1, delay |-> debounceDelay(delay)]}]

\* A debounce() that arms the timer and forgets this.timer = timer
debounceUntracked(d, delay) ==
  IF d.timer # 0 THEN [d EXCEPT !.again = TRUE]
  ELSE [d EXCEPT !.timerCount = d.timerCount + 1,
                 !.timeouts = d.timeouts \cup
                    {[id |-> d.timerCount + 1, delay |-> debounceDelay(delay)]}]

\* debounce(delay): with a timer pending only `again` is set; otherwise a new
\* timer is armed (timer 0 is null, delay 0 is undefined).
debounce(d, delay) ==
  IF d.timer # 0 THEN [d EXCEPT !.again = TRUE]
  ELSE [d EXCEPT !.timer = d.timerCount + 1,
                 !.timerCount = d.timerCount + 1,
                 !.timeouts = d.timeouts \cup
                    {[id |-> d.timerCount + 1, delay |-> debounceDelay(delay)]}]

\* A cancel() that clears the timeout and keeps this.timer
cancelKeepingTimer(d) ==
  IF d.timer # 0
  THEN [d EXCEPT !.again = FALSE,
                 !.timeouts = {t \in d.timeouts : t.id # d.timer}]
  ELSE d

\* A cancel() that acts only while the timeout is still armed
cancelArmedOnly(d) ==
  IF \E t \in d.timeouts : t.id = d.timer
  THEN [d EXCEPT !.timer = 0, !.again = FALSE,
                 !.timeouts = {t \in d.timeouts : t.id # d.timer}]
  ELSE d

\* cancel(): clearTimeout() takes the timer out of the timer queue
cancel(d) ==
  IF d.timer # 0
  THEN [d EXCEPT !.timer = 0, !.again = FALSE,
                 !.timeouts = {t \in d.timeouts : t.id # d.timer}]
  ELSE d

----------------------------------------------------------------------------
\* Control input: lines are sequences of characters.

Whitespace == {" ", "\n"}

RECURSIVE trimStart(_)
trimStart(s) == IF s # <<>> /\ Head(s) \in Whitespace THEN trimStart(Tail(s)) ELSE s

RECURSIVE trimEnd(_)
trimEnd(s) ==
  IF s # <<>> /\ s[Len(s)] \in Whitespace THEN trimEnd(SubSeq(s, 1, Len(s) - 1)) ELSE s

trim(s) == trimEnd(trimStart(s))

toLowerCase(s) ==
  [i \in DOMAIN s |-> CASE s[i] = "R" -> "r" [] s[i] = "S" -> "s"
                        [] s[i] = "U" -> "u" [] s[i] = "Q" -> "q" [] OTHER -> s[i]]

Lines == { <<"r">>, <<"R", "s", "\n">>, <<" ", "u">>, <<"q">> }

\* A test that lets every line pass
everyLineRecognized(data) == TRUE

\* data !== 'r' && data !== 'rs' && data !== 'u'
recognized(data) == data = <<"r">> \/ data = <<"r", "s">> \/ data = <<"u">>

----------------------------------------------------------------------------
\* The event loop

Idle == pc = "watching" /\ microtasks = <<>>

InFlight(promise) == \E r \in runs : r.id = promise

\* `await promise`: the continuation resumes in a microtask, at once if the
\* promise is settled (or is no promise), else when it settles.
Await(continuation) ==
  IF InFlight(continuation.promise)
  THEN awaiting' = Append(awaiting, continuation) /\ UNCHANGED microtasks
  ELSE microtasks' = Append(microtasks, continuation) /\ UNCHANGED awaiting

----------------------------------------------------------------------------
\* start() has not been called: there is no generator and nothing was yielded
NoPlan ==
  [pc |-> "none", changed |-> [settled |-> FALSE, value |-> <<>>],
   firstRun |-> FALSE, runAll |-> FALSE, updateSnapshots |-> FALSE,
   dirtyPaths |-> <<>>, touchedFiles |-> {}, temporaryFiles |-> {},
   filesWithExclusiveTests |-> {}, debounce |-> "fired"]

NoInstructions ==
  [files |-> <<>>, firstRun |-> FALSE, previousFailures |-> 0,
   runOnlyExclusive |-> FALSE, updateSnapshots |-> FALSE]

NotPlanning ==
  /\ plan = NoPlan
  /\ instructions = NoInstructions
  /\ yields = 0
  /\ received = {}
  /\ finalized = {}

\* The fields of a Watcher before its constructor has run this.rerunAll()
WatcherFields(config, inputBudget) ==
  /\ pc = "constructing"
  /\ options = config
  /\ budget = inputBudget
  /\ clearLogOnNextRun = TRUE
  /\ runVector = 0
  /\ previousFiles = <<>>
  /\ busy = 0
  /\ testDependencies = <<>>
  /\ temporaryFiles = {}
  /\ touchedFiles = {}
  /\ filesWithExclusiveTests = <<>>
  /\ filesWithFailures = <<>>
  /\ dirtyStates = NoDirtyStates
  /\ timer = 0
  /\ again = FALSE
  /\ timeouts = {}
  /\ awaiting = <<>>
  /\ microtasks = <<>>
  /\ pendingThrow = 0
  /\ runs = {}
  /\ engineCalls = 0
  /\ lastRun = NoRun
  /\ lastDecision = NoDecision
  /\ timerCount = 0
  /\ inputs = 0

\* The fields the constructor assigns, up to its this.rerunAll()
Constructing(config, inputBudget) ==
  /\ NotPlanning
  /\ WatcherFields(config, inputBudget)

Init == \E config \in Configurations : Constructing(config, MaxInputs)

\* The end of the constructor: this.rerunAll()
Construct ==
  /\ pc = "constructing"
  /\ pc' = "watching"
  /\ dirtyStates' = NoDirtyStates
  /\ Dispatch(rerunAll(clearLogOnNextRun, filesWithExclusiveTests,
                       filesWithFailures))
  /\ UNCHANGED <<options, budget, planVars, testDependencies, temporaryFiles, filesWithExclusiveTests,
                 awaiting, microtasks, pendingThrow, lastDecision, inputs>>
  /\ UNCHANGED debouncerVars

\* A raw filesystem event: the path's state is recorded and the debouncer
\* is (re)started.
FsEvent(path, event) ==
  /\ Idle
  /\ inputs < budget
  /\ inputs' = inputs + 1
  /\ dirtyStates' = [dirtyStates EXCEPT ![path] = event]
  /\ SetDebouncer(debounce(Debouncer, 0))
  /\ UNCHANGED <<pc, options, budget, planVars, clearLogOnNextRun, runVector, previousFiles, busy,
                 testDependencies, temporaryFiles, touchedFiles,
                 filesWithExclusiveTests, filesWithFailures, awaiting, microtasks,
                 pendingThrow, runs, engineCalls, lastRun, lastDecision>>

\* The debounce timer expires: its callback starts and awaits this.watcher.busy.
TimerExpires(t) ==
  /\ Idle
  /\ t \in timeouts
  /\ timeouts' = timeouts \ {t}
  /\ Await([kind |-> "debounce", promise |-> busy, timer |-> t.id,
            delay |-> t.delay, data |-> <<>>])
  /\ UNCHANGED <<pc, options, budget, planVars, clearLogOnNextRun, runVector, previousFiles, busy,
                 testDependencies, temporaryFiles, touchedFiles,
                 filesWithExclusiveTests, filesWithFailures, dirtyStates, timer,
                 again, pendingThrow, runs, engineCalls, lastRun, lastDecision,
                 timerCount, inputs>>

\* The timer callback resumes after debouncing was canceled: it does nothing.
DebounceCanceled ==
  /\ pc = "watching"
  /\ microtasks # <<>>
  /\ Head(microtasks).kind = "debounce"
  /\ timer # Head(microtasks).timer
  /\ microtasks' = Tail(microtasks)
  /\ UNCHANGED <<pc, options, budget, planVars, clearLogOnNextRun, runVector, previousFiles, busy,
                 testDependencies, temporaryFiles, touchedFiles,
                 filesWithExclusiveTests, filesWithFailures, dirtyStates, awaiting,
                 pendingThrow, runs, engineCalls, lastRun, lastDecision, inputs>>
  /\ UNCHANGED debouncerVars

\* The timer callback resumes and debounce() was called meanwhile: debounce
\* again, with half the delay.
DebounceAgain ==
  /\ pc = "watching"
  /\ microtasks # <<>>
  /\ Head(microtasks).kind = "debounce"
  /\ timer = Head(microtasks).timer
  /\ again
  /\ microtasks' = Tail(microtasks)
  /\ SetDebouncer(debounce([Debouncer EXCEPT !.timer = 0, !.again = FALSE],
                           Halved(Head(microtasks).delay)))
  /\ UNCHANGED <<pc, options, budget, planVars, clearLogOnNextRun, runVector, previousFiles, busy,
                 testDependencies, temporaryFiles, touchedFiles,
                 filesWithExclusiveTests, filesWithFailures, dirtyStates, awaiting,
                 pendingThrow, runs, engineCalls, lastRun, lastDecision, inputs>>

\* The timer callback resumes and calls this.watcher.runAfterChanges().
RunAfterChanges ==
  /\ pc = "watching"
  /\ microtasks # <<>>
  /\ Head(microtasks).kind = "debounce"
  /\ timer = Head(microtasks).timer
  /\ ~again
  /\ microtasks' = Tail(microtasks)
  /\ timer' = 0
  /\ again' = FALSE
  /\ dirtyStates' = NoDirtyStates
  /\ LET decision == runAfterChanges(dirtyStates, touchedFiles, temporaryFiles,
                                     testDependencies, filesWithExclusiveTests,
                                     filesWithFailures)
     IN /\ testDependencies' = decision.ledgers.testDependencies
        /\ filesWithExclusiveTests' = decision.ledgers.filesWithExclusiveTests
        /\ lastDecision' = [dirtyStates |-> dirtyStates, reruns |-> decision.reruns,
                            specificFiles |-> IF decision.reruns
                                              THEN decision.specificFiles ELSE <<>>]
        /\ IF decision.reruns
           THEN Dispatch(run(decision.specificFiles, FALSE, clearLogOnNextRun,
                             decision.ledgers.filesWithExclusiveTests,
                             decision.ledgers.filesWithFailures))
           ELSE /\ touchedFiles' = decision.touchedFiles
                /\ filesWithFailures' = decision.ledgers.filesWithFailures
                /\ UNCHANGED <<clearLogOnNextRun, runVector, previousFiles, busy,
                               runs, engineCalls, lastRun>>
  /\ UNCHANGED <<pc, options, budget, planVars, temporaryFiles, timeouts, awaiting, pendingThrow,
                 timerCount, inputs>>

\* A line of control input: a recognized command cancels the debouncer and
\* awaits this.busy.
StdinData(line) ==
  /\ Idle
  /\ inputs < budget
  /\ inputs' = inputs + 1
  /\ LET data == toLowerCase(trim(line))
     IN IF recognized(data)
        THEN /\ timer' = cancel(Debouncer).timer
             /\ again' = cancel(Debouncer).again
             /\ timeouts' = cancel(Debouncer).timeouts
             /\ Await([kind |-> "stdin", promise |-> busy, timer |-> 0,
                       delay |-> 0, data |-> data])
        ELSE UNCHANGED <<timer, again, timeouts, awaiting, microtasks>>
  /\ UNCHANGED <<pc, options, budget, planVars, clearLogOnNextRun, runVector, previousFiles, busy,
                 testDependencies, temporaryFiles, touchedFiles,
                 filesWithExclusiveTests, filesWithFailures, dirtyStates,
                 pendingThrow, runs, engineCalls, lastRun, lastDecision, timerCount>>

\* The stdin handler resumes: it cancels the debouncer again and reruns
\* (updatePreviousSnapshots() for `u`, rerunAll() otherwise).
Rerun ==
  /\ pc = "watching"
  /\ microtasks # <<>>
  /\ Head(microtasks).kind = "stdin"
  /\ microtasks' = Tail(microtasks)
  /\ timer' = cancel(Debouncer).timer
  /\ again' = cancel(Debouncer).again
  /\ timeouts' = cancel(Debouncer).timeouts
  /\ dirtyStates' = NoDirtyStates
  /\ IF Head(microtasks).data = <<"u">>
     THEN Dispatch(updatePreviousSnapshots(previousFiles, FALSE,
                                           filesWithExclusiveTests,
                                           filesWithFailures))
     ELSE Dispatch(rerunAll(FALSE, filesWithExclusiveTests, filesWithFailures))
  /\ UNCHANGED <<pc, options, budget, planVars, testDependencies, temporaryFiles,
                 filesWithExclusiveTests, awaiting, pendingThrow, lastDecision,
                 timerCount, inputs>>

----------------------------------------------------------------------------
\* The execution engine: api.run() emits `run` with its plan, then the plan's
\* status emits `stateChange` events, then the promise of api.run() settles.

AllTestFiles == SelectSeq(PathOrder, LAMBDA path : classify(path).isTest)

\* plan.files: the files handed to api.run(), every (filtered) test file if
\* none were.
planFiles(files) ==
  IF Len(files) > 0 THEN files
  ELSE IF Len(filter) > 0 THEN applyTestFileFilter(filter, AllTestFiles)
       ELSE AllTestFiles

SnapshotFiles == {"s1", "s2", "ig"}

TouchedReports ==
  { [changedFiles |-> {"s1"}, temporaryFiles |-> {}],
    [changedFiles |-> {"t2"}, temporaryFiles |-> {"s2"}] }

FileStats ==
  { [selectedTests |-> 1, declaredTests |-> 1],
    [selectedTests |-> 1, declaredTests |-> 2],
    [selectedTests |-> 0, declaredTests |-> 1] }

FailureTypes ==
  {"hook-failed", "internal-error", "process-exit", "test-failed",
   "uncaught-exception", "unhandled-rejection", "worker-failed"}

\* The stateChange events that carry a type and (perhaps) a testFile; "" is
\* an absent testFile.
ReportedTypes == {"test-failed", "worker-failed", "selected-test"}

engineVars == <<pc, options, budget, planVars, clearLogOnNextRun, runVector, previousFiles, busy,
                dirtyStates, awaiting, microtasks, pendingThrow, engineCalls,
                lastRun, lastDecision>>

\* api.emit('run', plan): trackFailures prunes the failures of the plan's
\* files and remembers the run vector; the other listeners subscribe.
RunPlanned(r) ==
  /\ Idle
  /\ r \in runs
  /\ ~r.emitted
  /\ filesWithFailures' = pruneFailures(filesWithFailures, planFiles(r.files))
  /\ runs' = (runs \ {r}) \cup {[r EXCEPT !.emitted = TRUE, !.currentVector = runVector]}
  /\ UNCHANGED engineVars
  /\ UNCHANGED <<testDependencies, temporaryFiles, touchedFiles,
                 filesWithExclusiveTests, inputs>>
  /\ UNCHANGED debouncerVars

Reporting(r) ==
  /\ Idle
  /\ r \in runs
  /\ r.emitted
  /\ inputs < budget
  /\ inputs' = inputs + 1
  /\ UNCHANGED engineVars
  /\ UNCHANGED runs
  /\ UNCHANGED debouncerVars

\* stateChange `accessed-snapshots`
AccessedSnapshots(r, testFile, filename) ==
  /\ Reporting(r)
  /\ testFile \in SeqToSet(planFiles(r.files))
  /\ testDependencies' =
       updateTestDependencies(testDependencies, testFile,
         SelectSeq(<<filename>>, LAMBDA filePath : ~classify(filePath).isIgnoredByWatcher))
  /\ UNCHANGED <<temporaryFiles, touchedFiles, filesWithExclusiveTests,
                 filesWithFailures>>

\* stateChange `touched-files`
TouchedFiles(r, files) ==
  /\ Reporting(r)
  /\ touchedFiles' = touchedFiles \cup files.changedFiles
  /\ temporaryFiles' = temporaryFiles \cup files.temporaryFiles
  /\ UNCHANGED <<testDependencies, filesWithExclusiveTests, filesWithFailures>>

\* stateChange `worker-finished`
WorkerFinished(r, testFile, fileStats) ==
  /\ Reporting(r)
  /\ testFile \in SeqToSet(planFiles(r.files))
  /\ filesWithExclusiveTests' =
       updateExclusivity(filesWithExclusiveTests, testFile, ranExclusiveTests(fileStats))
  /\ UNCHANGED <<testDependencies, temporaryFiles, touchedFiles, filesWithFailures>>

\* Any other stateChange, as trackFailures sees it
StateChange(r, type, testFile) ==
  /\ Reporting(r)
  /\ testFile \in SeqToSet(planFiles(r.files)) \cup {""}
  /\ filesWithFailures' =
       IF testFile # "" /\ type \in FailureTypes
       THEN countFailure(filesWithFailures, testFile, r.currentVector)
       ELSE filesWithFailures
  /\ UNCHANGED <<testDependencies, temporaryFiles, touchedFiles,
                 filesWithExclusiveTests>>

\* A .catch() handler that schedules nothing
absorbed(pending) == pending

\* rethrowAsync(error): one more throw is scheduled
rethrowAsync(pending) == pending + 1

\* The promise of api.run() settles; then this.busy settles and everything
\* that awaits it is queued to resume, in the order of the awaits.
Outcomes == {"passed", "failed", "rejected"}

\* The .then() handler of run() calls reporter.endRun() and writes the line
\* of hints; a rejection passes it by and reaches .catch() alone.
reporterCalls(outcome) ==
  IF outcome = "rejected" THEN [endRun |-> 0, writeLine |-> 0]
  ELSE [endRun |-> 1, writeLine |-> 1]

\* A .then() handler that ignores the failure counters
clearLogKept(clearLog, outcome) == clearLog

\* The .then() handler of run(): the failure counters of runStatus.stats
clearLogAfter(clearLog, outcome) ==
  IF clearLog /\ outcome = "failed" THEN FALSE ELSE clearLog

RunSettles(r, outcome) ==
  /\ Idle
  /\ r \in runs
  /\ outcome # "rejected" => r.emitted
  /\ runs' = runs \ {r}
  /\ clearLogOnNextRun' = IF outcome = "rejected" THEN clearLogOnNextRun
                          ELSE clearLogAfter(clearLogOnNextRun, outcome)
  /\ pendingThrow' = IF outcome = "rejected" THEN rethrowAsync(pendingThrow)
                     ELSE pendingThrow
  /\ microtasks' = SelectSeq(awaiting, LAMBDA c : c.promise = r.id)
  /\ awaiting' = SelectSeq(awaiting, LAMBDA c : c.promise # r.id)
  /\ UNCHANGED <<pc, options, budget, planVars, runVector, previousFiles, busy, testDependencies,
                 temporaryFiles, touchedFiles, filesWithExclusiveTests,
                 filesWithFailures, dirtyStates, engineCalls, lastRun,
                 lastDecision, inputs>>
  /\ UNCHANGED debouncerVars

\* rethrowAsync: setImmediate(() => {throw error}); the uncaught exception
\* ends the process unless the host handles it.
Rethrow(exits) ==
  /\ Idle
  /\ pendingThrow > 0
  /\ pendingThrow' = pendingThrow - 1
  /\ pc' = IF exits THEN "exited" ELSE pc
  /\ UNCHANGED <<options, budget, planVars, clearLogOnNextRun, runVector, previousFiles, busy,
                 testDependencies, temporaryFiles, touchedFiles,
                 filesWithExclusiveTests, filesWithFailures, dirtyStates, awaiting,
                 microtasks, runs, engineCalls, lastRun, lastDecision, inputs>>
  /\ UNCHANGED debouncerVars

----------------------------------------------------------------------------
\* The events the filesystem watcher reports for a path
Events(path) == IF classify(path).isTest THEN {"change", "unlink"} ELSE {"change"}

Next ==
  \/ Construct
  \/ \E path \in Paths : \E event \in Events(path) : FsEvent(path, event)
  \/ \E t \in timeouts : TimerExpires(t)
  \/ DebounceCanceled
  \/ DebounceAgain
  \/ RunAfterChanges
  \/ \E line \in Lines : StdinData(line)
  \/ Rerun
  \/ \E r \in runs : RunPlanned(r)
  \/ \E r \in runs : \E testFile \in TestFiles : \E filename \in SnapshotFiles :
       AccessedSnapshots(r, testFile, filename)
  \/ \E r \in runs : \E files \in TouchedReports : TouchedFiles(r, files)
  \/ \E r \in runs : \E testFile \in TestFiles : \E fileStats \in FileStats :
       WorkerFinished(r, testFile, fileStats)
  \/ \E r \in runs : \E type \in ReportedTypes : \E testFile \in TestFiles \cup {""} :
       StateChange(r, type, testFile)
  \/ \E r \in runs : \E outcome \in Outcomes : RunSettles(r, outcome)
  \/ \E exits \in BOOLEAN : Rethrow(exits)

Spec == Init /\ [][Next]_vars

----------------------------------------------------------------------------
\* A burst of fs events during the runs of a watcher without providers or
\* filter: the debouncer alone decides what happens.

BurstPaths == {"t1", "s1"}

DebouncingInit == Constructing([providers |-> <<>>, filter |-> <<>>], MaxEvents)

DebouncingNext ==
  \/ Construct
  \/ \E path \in BurstPaths : FsEvent(path, "change")
  \/ \E t \in timeouts : TimerExpires(t)
  \/ DebounceAgain
  \/ RunAfterChanges
  \/ \E r \in runs : RunPlanned(r)
  \/ \E r \in runs : RunSettles(r, "passed")

Debouncing == DebouncingInit /\ [][DebouncingNext]_vars

----------------------------------------------------------------------------
\* Commands typed during the runs of a watcher without providers or filter,
\* with changes of t1 and reports of exclusive tests in t2.

OverlappingInit ==
  Constructing([providers |-> <<>>, filter |-> <<>>], MaxOverlapInputs)

OverlappingNext ==
  \/ Construct
  \/ FsEvent("t1", "change")
  \/ \E t \in timeouts : TimerExpires(t)
  \/ DebounceCanceled
  \/ DebounceAgain
  \/ RunAfterChanges
  \/ \E line \in {<<"r">>, <<" ", "u">>} : StdinData(line)
  \/ Rerun
  \/ \E r \in runs : RunPlanned(r)
  \/ \E r \in runs : WorkerFinished(r, "t2", [selectedTests |-> 1, declaredTests |-> 2])
  \/ \E r \in runs : RunSettles(r, "passed")

Overlapping == OverlappingInit /\ [][OverlappingNext]_vars

----------------------------------------------------------------------------
\* Changes and commands during runs that record failures, in a watcher
\* without providers or filter. Node.js fires every armed timer, resumes
\* every continuation whose promise has settled, and the engine lets every
\* run emit its plan and settle: what is left to chance is the input.

MaxResponsiveInputs == 3

ResponsiveInit ==
  Constructing([providers |-> <<>>, filter |-> <<>>], MaxResponsiveInputs)

ResponsiveInput ==
  \/ \E path \in {"t1", "s1"} : \E event \in Events(path) : FsEvent(path, event)
  \/ \E line \in {<<"r">>, <<" ", "u">>} : StdinData(line)
  \/ \E r \in runs : StateChange(r, "test-failed", "t1")

EventLoopTurn ==
  \/ \E t \in timeouts : TimerExpires(t)
  \/ DebounceCanceled
  \/ DebounceAgain
  \/ RunAfterChanges
  \/ Rerun

EngineTurn ==
  \/ \E r \in runs : RunPlanned(r)
  \/ \E r \in runs : \E outcome \in {"passed", "failed"} : RunSettles(r, outcome)

ResponsiveNext ==
  \/ Construct
  \/ ResponsiveInput
  \/ EventLoopTurn
  \/ EngineTurn

Responsive ==
  /\ ResponsiveInit
  /\ [][ResponsiveNext]_vars
  /\ WF_vars(Construct)
  /\ WF_vars(EventLoopTurn)
  /\ WF_vars(EngineTurn)

----------------------------------------------------------------------------
\* start() and plan(): the run loop takes its instructions from a generator.
\* The Watcher class is not instantiated; its fields stay as they are.

MaxPlanInputs == 4

watcherVars ==
  <<pc, options, budget, clearLogOnNextRun, runVector, previousFiles, busy,
    testDependencies, temporaryFiles, touchedFiles, filesWithExclusiveTests,
    filesWithFailures, dirtyStates, timer, again, timeouts, awaiting,
    microtasks, pendingThrow, runs, engineCalls, lastRun, lastDecision,
    timerCount>>

\* new Promise(resolve => { signalChanged = resolve; })
Pending == [settled |-> FALSE, value |-> <<>>]

\* Promise.resolve(value)
Resolved(value) == [settled |-> TRUE, value |-> value]

\* resolve(value): a settled promise keeps its value
resolve(promise, value) == IF promise.settled THEN promise ELSE Resolved(value)

signalChanged(p, value) == [p EXCEPT !.changed = resolve(p.changed, value)]

\* A reset() that leaves updateSnapshots as it is
resetKeepingUpdate(p) ==
  [p EXCEPT !.changed = Pending, !.firstRun = FALSE, !.runAll = FALSE]

reset(p) ==
  [p EXCEPT !.changed = Pending, !.firstRun = FALSE, !.runAll = FALSE,
            !.updateSnapshots = FALSE]

\* The stdin `data` listener, on the trimmed and lowercased line
stdinData(p, data) ==
  LET flagged == [p EXCEPT !.runAll = p.runAll \/ data = <<"r">>,
                           !.updateSnapshots = p.updateSnapshots \/ data = <<"u">>]
  IN IF flagged.runAll \/ flagged.updateSnapshots
     THEN signalChanged(flagged, <<>>)
     ELSE flagged

\* dirtyPaths.add(filename): a Set keeps the order of the first insertions
add(paths, filename) == IF includes(paths, filename) THEN paths ELSE Append(paths, filename)

\* The test files among the dirty paths that the debounce callback keeps,
\* after the filter if there is one
changedTestFiles(p) ==
  LET testFiles ==
        SelectSeq(p.dirtyPaths, LAMBDA path :
          /\ path \notin p.temporaryFiles
          /\ path \notin p.touchedFiles
          /\ \A i \in DOMAIN providers : path \notin providers[i].ignoreChange
          /\ ~classify(path).isIgnoredByWatcher
          /\ classify(path).isTest)
  IN IF Len(filter) > 0 THEN applyTestFileFilter(filter, testFiles) ELSE testFiles

\* The debounce callback
debounced(p) ==
  IF p.dirtyPaths = <<>> THEN p
  ELSE LET cleared == [p EXCEPT !.dirtyPaths = <<>>, !.temporaryFiles = {},
                                !.touchedFiles = {}]
       IN IF Len(changedTestFiles(p)) > 0
          THEN signalChanged(cleared, changedTestFiles(p))
          ELSE cleared

\* plan() has run up to its first `await changed`: the listeners are set,
\* the timer is armed.
PlanInit ==
  /\ \E config \in Configurations : WatcherFields(config, MaxPlanInputs)
  /\ plan = [pc |-> "awaiting", changed |-> Resolved(<<>>),
             firstRun |-> TRUE, runAll |-> TRUE, updateSnapshots |-> FALSE,
             dirtyPaths |-> <<>>, touchedFiles |-> {}, temporaryFiles |-> {},
             filesWithExclusiveTests |-> {}, debounce |-> "armed"]
  /\ instructions = NoInstructions
  /\ yields = 0
  /\ received = {}
  /\ finalized = {}

\* A continuation of the generator is ready: microtasks run before any event.
PlanResuming == plan.pc = "awaiting" /\ plan.changed.settled

PlanIdle == plan.pc # "none" /\ ~PlanResuming

\* `changed` has settled: the loop of plan() builds the instructions, resets
\* and yields; start() hands them to api.run().
PlanYields ==
  /\ PlanResuming
  /\ instructions' = [files |-> plan.changed.value, firstRun |-> plan.firstRun,
                      previousFailures |-> 0, runOnlyExclusive |-> FALSE,
                      updateSnapshots |-> plan.updateSnapshots]
  /\ plan' = [reset(plan) EXCEPT !.pc = "yielded"]
  /\ yields' = yields + 1
  /\ received' = {}
  /\ finalized' = IF plan.changed.value = <<>> THEN {}
                  ELSE finalized \ SeqToSet(plan.changed.value)
  /\ UNCHANGED <<watcherVars, inputs>>

\* The promise of api.run() is fulfilled: start() asks for the next
\* instructions and plan() awaits `changed`.
PlanRunEnds ==
  /\ plan.pc = "yielded"
  /\ plan' = [plan EXCEPT !.pc = "awaiting"]
  /\ UNCHANGED <<watcherVars, inputs, instructions, yields, received, finalized>>

PlanInput ==
  /\ PlanIdle
  /\ inputs < budget
  /\ inputs' = inputs + 1
  /\ UNCHANGED <<watcherVars, instructions, yields>>

\* stdin.on('data')
PlanStdinData(line) ==
  /\ PlanInput
  /\ plan' = stdinData(plan, toLowerCase(trim(line)))
  /\ received' = received \cup {toLowerCase(trim(line))}
  /\ UNCHANGED finalized

\* The callback of fs.watch()
PlanFsWatch(filename) ==
  /\ PlanInput
  /\ plan' = [plan EXCEPT !.dirtyPaths = add(plan.dirtyPaths, filename),
                          !.debounce = "armed"]
  /\ UNCHANGED <<received, finalized>>

\* The debounce timer fires
PlanDebounce ==
  /\ PlanIdle
  /\ plan.debounce = "armed"
  /\ plan' = [debounced(plan) EXCEPT !.debounce = "fired"]
  /\ finalized' = finalized \cup SeqToSet(changedTestFiles(plan))
  /\ UNCHANGED <<watcherVars, inputs, instructions, yields, received>>

\* stateChange `touched-files` of the run in flight
PlanTouchedFiles(files) ==
  /\ PlanInput
  /\ plan.pc = "yielded"
  /\ plan' = [plan EXCEPT !.touchedFiles = @ \cup files.changedFiles,
                          !.temporaryFiles = @ \cup files.temporaryFiles]
  /\ UNCHANGED <<received, finalized>>

\* stateChange `worker-finished` of the run in flight
PlanWorkerFinished(testFile, fileStats) ==
  /\ PlanInput
  /\ plan.pc = "yielded"
  /\ testFile \in SeqToSet(planFiles(instructions.files))
  /\ plan' = [plan EXCEPT !.filesWithExclusiveTests =
                IF fileStats.selectedTests > 0
                   /\ fileStats.declaredTests > fileStats.selectedTests
                THEN @ \cup {testFile} ELSE @ \ {testFile}]
  /\ UNCHANGED <<received, finalized>>

PlanNext ==
  \/ PlanYields
  \/ PlanRunEnds
  \/ \E line \in Lines : PlanStdinData(line)
  \/ \E filename \in Paths : PlanFsWatch(filename)
  \/ PlanDebounce
  \/ \E files \in TouchedReports : PlanTouchedFiles(files)
  \/ \E testFile \in TestFiles : \E fileStats \in FileStats :
       PlanWorkerFinished(testFile, fileStats)

\* Node.js resumes the generator and fires the timer, and the runs end.
Planning ==
  /\ PlanInit
  /\ [][PlanNext]_vars
  /\ WF_vars(PlanYields)
  /\ WF_vars(PlanRunEnds)
  /\ WF_vars(PlanDebounce)

----------------------------------------------------------------------------
\* The batch a runAfterChanges() call finds, in the words of the design.

\* The paths that survive the self-inflicted, provider and watcher ignores
Surviving(path) ==
  /\ dirtyStates[path] # "none"
  /\ path \notin touchedFiles
  /\ path \notin temporaryFiles
  /\ \A i \in DOMAIN providers : path \notin providers[i].ignoreChange
  /\ ~classify(path).isIgnoredByWatcher

TestChanged ==
  {path \in Paths : Surviving(path) /\ classify(path).isTest
                    /\ dirtyStates[path] # "unlink"}

TestUnlinked ==
  {path \in Paths : Surviving(path) /\ classify(path).isTest
                    /\ dirtyStates[path] = "unlink"}

HelperOrSource == {path \in Paths : Surviving(path) /\ ~classify(path).isTest}

\* The tracked files, the deleted tests of the batch being retired, whose
\* dependencies contain the path
DependentsOf(path) ==
  {testDependencies[i].file : i \in
     {j \in DOMAIN testDependencies :
        /\ testDependencies[j].file \notin TestUnlinked
        /\ path \in SeqToSet(testDependencies[j].dependencies)}}

DirtyBatch == {path \in Paths : dirtyStates[path] # "none"}

Dispatched == engineCalls' = engineCalls + 1

NotDispatched == engineCalls' = engineCalls /\ runs' = runs /\ lastRun' = lastRun

NoDuplicates(s) == Cardinality(SeqToSet(s)) = Len(s)

----------------------------------------------------------------------------
\* C1: at most one run is in flight at any time.
AtMostOneRunInFlight == Cardinality(runs) <= 1

\* C2: runAfterChanges() classifies a dirty batch only when no run is in
\* flight.
DecidesOnlyWhenIdle == [][RunAfterChanges => runs = {}]_vars

\* C3: the generation starts at 0 and the k-th run handed to the engine
\* carries generation k.
GenerationCountsRuns ==
  /\ pc = "constructing" => runVector = 0
  /\ runVector = engineCalls
  /\ lastRun.runVector = engineCalls

ThirdRunDispatched == engineCalls = 3 /\ lastRun.runVector = 3

\* C4: a dirty batch of deleted test files only dispatches no run.
DeletedTestsDispatchNoRun ==
  [][(/\ RunAfterChanges
      /\ DirtyBatch # {}
      /\ \A path \in DirtyBatch :
           /\ dirtyStates[path] = "unlink"
           /\ classify(path).isTest
           /\ ~classify(path).isIgnoredByWatcher)
     => NotDispatched]_vars

DeletedTestsDecided ==
  /\ lastDecision.dirtyStates["t1"] = "unlink"
  /\ lastDecision.dirtyStates["t2"] = "unlink"
  /\ ~lastDecision.reruns
  /\ engineCalls = 1

\* C5: after a batch is processed, every deleted test file of it has no
\* dependency entry, is not in the exclusive set and has no failure record.
DeletedTestsRetired ==
  [][RunAfterChanges =>
       \A path \in TestUnlinked :
         /\ \A i \in DOMAIN testDependencies' : testDependencies'[i].file # path
         /\ ~includes(filesWithExclusiveTests', path)
         /\ \A i \in DOMAIN filesWithFailures' : filesWithFailures'[i].file # path]_vars

\* C6: when every helper or source path of the batch has a tracked dependent,
\* the run is requested for exactly the changed tests and all the dependents,
\* each once.
TracedSourcesRerunDependents ==
  [][(/\ RunAfterChanges
      /\ HelperOrSource # {}
      /\ \A path \in HelperOrSource : DependentsOf(path) # {})
     => /\ Dispatched
        /\ SeqToSet(lastRun'.specificFiles) =
             TestChanged \cup UNION {DependentsOf(path) : path \in HelperOrSource}
        /\ NoDuplicates(lastRun'.specificFiles)]_vars

DependentRerun ==
  /\ lastDecision.dirtyStates["s1"] = "change"
  /\ lastDecision.dirtyStates["t1"] = "change"
  /\ lastDecision.reruns
  /\ lastDecision.specificFiles = <<"t1">>
  /\ lastRun.specificFiles = <<"t1">>

\* C7: when some helper or source path of the batch has no tracked dependent,
\* the run is dispatched for the unfiltered (empty) file set.
UntracedSourceRerunsAll ==
  [][(/\ RunAfterChanges
      /\ \E path \in HelperOrSource : DependentsOf(path) = {})
     => /\ Dispatched
        /\ lastRun'.specificFiles = <<>>
        /\ lastRun'.files = <<>>
        /\ ~lastRun'.runOnlyExclusive]_vars

UntracedAmongTraced ==
  /\ lastDecision.dirtyStates["s1"] = "change"
  /\ lastDecision.dirtyStates["s2"] = "change"
  /\ \E i \in DOMAIN testDependencies : contains(testDependencies[i], "s1")
  /\ \A i \in DOMAIN testDependencies : ~contains(testDependencies[i], "s2")
  /\ lastDecision.reruns
  /\ lastRun.files = <<>>
  /\ engineCalls = 2
  /\ inputs = 3

\* C8: a surviving batch without helper or source paths, and not of deleted
\* tests only, requests a run for exactly its added or changed test files.
ChangedTestsRerun ==
  [][(/\ RunAfterChanges
      /\ HelperOrSource = {}
      /\ TestChanged # {})
     => /\ Dispatched
        /\ SeqToSet(lastRun'.specificFiles) = TestChanged
        /\ NoDuplicates(lastRun'.specificFiles)]_vars

ChangedTestRerunBesideDeleted ==
  /\ lastDecision.dirtyStates["t1"] = "change"
  /\ lastDecision.dirtyStates["t2"] = "unlink"
  /\ lastDecision.reruns
  /\ lastRun.specificFiles = <<"t1">>
  /\ engineCalls = 2

\* C9: paths classified isIgnoredByWatcher do not influence the decision: the
\* batch decides as the same batch without them does, so a batch whose
\* surviving paths are all watcher-ignored or deleted tests dispatches no run.
WatcherIgnoredPathsDropped ==
  [][RunAfterChanges =>
       LET without == [path \in Paths |->
                         IF classify(path).isIgnoredByWatcher THEN "none"
                         ELSE dirtyStates[path]]
           decision == runAfterChanges(without, touchedFiles, temporaryFiles,
                                       testDependencies, filesWithExclusiveTests,
                                       filesWithFailures)
       IN /\ decision.reruns => Dispatched /\ lastRun'.specificFiles = decision.specificFiles
          /\ ~decision.reruns => NotDispatched]_vars

\* C10: a non-empty request that does not contain every file of the exclusive
\* set runs the exclusive set united with the rest of the request, with
\* runOnlyExclusive.
ExclusiveFilesJoinRequest ==
  [][Dispatched =>
       LET exclusiveSet == SeqToSet(filesWithExclusiveTests')
           requested == SeqToSet(lastRun'.specificFiles)
       IN (requested # {} /\ ~(exclusiveSet \subseteq requested))
            => /\ SeqToSet(lastRun'.reconciled) =
                    exclusiveSet \cup (requested \ exclusiveSet)
               /\ lastRun'.runOnlyExclusive
               /\ Len(filter) = 0 => lastRun'.files = lastRun'.reconciled]_vars

ExclusiveFileJoined ==
  /\ filesWithExclusiveTests = <<"t1">>
  /\ lastRun.specificFiles = <<"t2">>
  /\ lastRun.reconciled = <<"t1", "t2">>
  /\ lastRun.files = <<"t1", "t2">>
  /\ lastRun.runOnlyExclusive

\* C11: a request that is empty, or that contains every file of the exclusive
\* set, passes the reconciliation unchanged and without runOnlyExclusive.
CoveringRequestUnchanged ==
  [][Dispatched =>
       LET exclusiveSet == SeqToSet(filesWithExclusiveTests')
           requested == SeqToSet(lastRun'.specificFiles)
       IN (requested = {} \/ exclusiveSet \subseteq requested)
            => /\ ~lastRun'.runOnlyExclusive
               /\ lastRun'.reconciled = lastRun'.specificFiles
               /\ Len(filter) = 0 => lastRun'.files = lastRun'.specificFiles]_vars

CoveringRequestDispatched ==
  /\ filesWithExclusiveTests = <<"t1">>
  /\ lastRun.specificFiles = <<"t1", "t2">>
  /\ lastRun.reconciled = <<"t1", "t2">>
  /\ ~lastRun.runOnlyExclusive
  /\ inputs = 3

\* C12: after a worker-finished event for a file, the file is in the
\* exclusive set if and only if it declared more tests than it selected.
ExclusiveIffDeclaredExceedsSelected ==
  [][\A r \in runs : \A testFile \in TestFiles : \A fileStats \in FileStats :
       WorkerFinished(r, testFile, fileStats)
         => (includes(filesWithExclusiveTests', testFile)
               <=> fileStats.declaredTests > fileStats.selectedTests)]_vars

\* C12, amended: after a worker-finished event for a file, the file is in the
\* exclusive set if and only if it selected at least one test and declared
\* more tests than it selected; the membership of the other files is as before.
ExclusiveIffRanExclusiveTests ==
  [][\A r \in runs : \A testFile \in TestFiles : \A fileStats \in FileStats :
       WorkerFinished(r, testFile, fileStats)
         => /\ includes(filesWithExclusiveTests', testFile)
                 <=> (/\ fileStats.selectedTests > 0
                      /\ fileStats.declaredTests > fileStats.selectedTests)
            /\ NoDuplicates(filesWithExclusiveTests')
            /\ \A file \in TestFiles \ {testFile} :
                 includes(filesWithExclusiveTests', file)
                   <=> includes(filesWithExclusiveTests, file)]_vars

\* t2 and then t1 finished with a test selected and more tests declared.
ExclusiveMembershipRecomputed ==
  /\ filesWithExclusiveTests = <<"t2", "t1">>
  /\ inputs = 2
  /\ engineCalls = 1

\* The sum of count over the records of the given indices
RECURSIVE CountOver(_, _)
CountOver(failures, indices) ==
  IF indices = {} THEN 0
  ELSE LET i == CHOOSE j \in indices : TRUE
       IN failures[i].count + CountOver(failures, indices \ {i})

SumBefore(failures, generation) ==
  CountOver(failures, {i \in DOMAIN failures : failures[i].vector < generation})

\* C13: sumPreviousFailures(g) is the sum of count over the records whose
\* stored generation is less than g, and the previousFailures of the run with
\* generation g is that sum over the ledger as it is when the run is handed
\* to the engine.
PreviousFailuresSumEarlierRecords ==
  [][Dispatched =>
       /\ lastRun'.runVector = runVector'
       /\ lastRun'.previousFailures = SumBefore(filesWithFailures', runVector')
       /\ \A generation \in 0..(runVector' + 1) :
            sumPreviousFailures(filesWithFailures', generation)
              = SumBefore(filesWithFailures', generation)]_vars

\* Two failures of t1 recorded at generation 1 are reported to run 2.
TwoEarlierFailuresReported ==
  /\ filesWithFailures = <<[file |-> "t1", vector |-> 1, count |-> 2]>>
  /\ lastRun.runVector = 2
  /\ lastRun.previousFailures = 2

\* The records a ledger holds for a file
RecordsOf(failures, file) ==
  {failures[i] : i \in {j \in DOMAIN failures : failures[j].file = file}}

\* What recording a failure of the file at the generation makes of a ledger
Recorded(before, after, file, generation) ==
  /\ IF RecordsOf(before, file) = {}
     THEN /\ RecordsOf(after, file) = {[file |-> file, vector |-> generation, count |-> 1]}
          /\ Len(after) = Len(before) + 1
     ELSE /\ \E old \in RecordsOf(before, file) :
               RecordsOf(after, file) = {[old EXCEPT !.count = old.count + 1]}
          /\ Len(after) = Len(before)
  /\ \A other \in TestFiles \ {file} : RecordsOf(after, other) = RecordsOf(before, other)

DispatchedFilesPruned ==
  [][(Dispatched /\ lastRun'.files # <<>>) =>
       LET dispatched == SeqToSet(lastRun'.files)
           retired == IF Head(microtasks).kind = "debounce" THEN TestUnlinked ELSE {}
           kept == SelectSeq(filesWithFailures,
                             LAMBDA state : state.file \notin dispatched \cup retired)
       IN /\ \A i \in DOMAIN filesWithFailures' :
               filesWithFailures'[i].file \notin dispatched
          /\ filesWithFailures' = kept
          /\ lastRun'.previousFailures = SumBefore(kept, lastRun'.runVector)]_vars

\* Run 2 is dispatched for t1: the ledger keeps the failure of t2 alone, and
\* run 2 is told of that one.
OtherFailuresKept ==
  /\ lastRun.files = <<"t1">>
  /\ lastRun.runVector = 2
  /\ lastRun.previousFailures = 1
  /\ filesWithFailures = <<[file |-> "t2", vector |-> 1, count |-> 1]>>

\* The continuations that wait for a run or are ready to resume
Continuations == awaiting \o microtasks

\* The callbacks of the debouncer's timer that are still to act: the armed
\* timer and the callbacks that await the run in flight
LiveCallbacks ==
  Cardinality({t \in timeouts : t.id = timer})
  + Len(SelectSeq(Continuations, LAMBDA c : c.kind = "debounce" /\ c.timer = timer))

CommandPending == \E i \in DOMAIN Continuations : Continuations[i].kind = "stdin"

\* C16: the fs events that arrive while a timer is pending join one batch:
\* each records its path's latest kind and hands nothing off; the batch has
\* exactly one callback still to act (unless a command is about to replace it
\* by a rerun); and the one runAfterChanges() call that callback makes takes
\* the whole batch, leaves it empty and no timer behind, and dispatches at
\* most one run.
OneHandOffPerBatch ==
  [][/\ \A path \in Paths : \A event \in Events(path) :
          FsEvent(path, event)
            => /\ dirtyStates' = [dirtyStates EXCEPT ![path] = event]
               /\ NotDispatched
               /\ lastDecision' = lastDecision
               /\ timer' # 0
     /\ timer' # 0 => LiveCallbacks' = 1
     /\ Cardinality(timeouts') <= 1
     /\ DirtyBatch' # {} => (timer' # 0 \/ CommandPending')
     /\ RunAfterChanges
          => /\ lastDecision'.dirtyStates = dirtyStates
             /\ dirtyStates' = NoDirtyStates
             /\ timer' = 0
             /\ timeouts' = {}
             /\ engineCalls' <= engineCalls + 1
     /\ ~(DirtyBatch \subseteq DirtyBatch') => (RunAfterChanges \/ Rerun)]_vars

\* Three events for distinct paths made one batch, which one decision handed
\* to one run.
ThreePathsOneDecision ==
  /\ lastDecision.dirtyStates["t1"] = "change"
  /\ lastDecision.dirtyStates["t2"] = "unlink"
  /\ lastDecision.dirtyStates["s1"] = "change"
  /\ lastDecision.reruns
  /\ engineCalls = 2
  /\ DirtyBatch = {}
  /\ timer = 0

\* The delays of a burst, in quarters of a millisecond: 100, 50, 25, 12.5 and
\* 10 ms; 10 ms is followed by 10 ms
NextDelay == [delay \in {400, 200, 100, 50, 40} |->
                CASE delay = 400 -> 200 [] delay = 200 -> 100 [] delay = 100 -> 50
                  [] OTHER -> 40]

\* C17: when the timer's callback resumes and events arrived meanwhile, the
\* batch is not handed off and a new timer is armed with half the delay of the
\* last, at least 10 ms (100, 50, 25, 12.5, 10, 10, ...); an event that finds
\* no timer pending arms one with the default 100 ms.
HalvedDelayRearmed ==
  [][/\ DebounceAgain
          => /\ NotDispatched
             /\ lastDecision' = lastDecision
             /\ dirtyStates' = dirtyStates
             /\ ~again'
             /\ timer' \notin {0, timer}
             /\ Head(microtasks).delay \in DOMAIN NextDelay
             /\ timeouts' = {[id |-> timer', delay |-> NextDelay[Head(microtasks).delay]]}
     /\ \A path \in Paths : \A event \in Events(path) :
          (FsEvent(path, event) /\ timer = 0)
            => timeouts' = {[id |-> timer', delay |-> 400]}]_vars

\* The sixth timer of a burst is armed with 10 ms, after 100, 50, 25, 12.5 and
\* 10 ms.
FloorDelayRepeated ==
  /\ timeouts = {[id |-> 6, delay |-> 40]}
  /\ timer = 6
  /\ engineCalls = 1
  /\ inputs = 6

\* C18: an fs event that arrives while the quiet-period timer is armed
\* re-arms it, so that it restarts from the default 100 ms.
QuietPeriodRestarts ==
  [][\A path \in Paths : \A event \in Events(path) :
       (FsEvent(path, event) /\ timeouts # {})
         => /\ timer' \notin {0, timer}
            /\ timeouts' = {[id |-> timer', delay |-> 400]}]_vars

\* C18, amended: an fs event that arrives while the quiet-period timer is
\* armed leaves that timer running and marks the debounce for repetition; the
\* mark stays until a new timer is armed (or the debouncer is canceled), and
\* the batch is handed off only by the callback of a timer no event arrived
\* after.
QuietPeriodRepeats ==
  [][/\ \A path \in Paths : \A event \in Events(path) :
          (FsEvent(path, event) /\ timer # 0)
            => /\ timer' = timer
               /\ timeouts' = timeouts
               /\ again'
     /\ (again /\ ~again') => (DebounceAgain \/ timer' = 0)
     /\ RunAfterChanges => (~again /\ Head(microtasks).timer = timer)]_vars

\* A second event arrived while the first event's timer was armed: the timer
\* is the same, and the debounce is marked for repetition.
EventDuringQuietPeriod ==
  /\ timeouts = {[id |-> 1, delay |-> 400]}
  /\ timer = 1
  /\ again
  /\ DirtyBatch = {"t1", "s1"}

\* The timers whose callback has fired and is still to resume, and which the
\* debouncer holds no more: they were canceled
CanceledCallbacks ==
  {Continuations[i].timer :
     i \in {j \in DOMAIN Continuations :
              /\ Continuations[j].kind = "debounce"
              /\ Continuations[j].timer # timer}}

\* The steps that call this.debouncer.cancel()
Cancels ==
  \/ \E line \in Lines : StdinData(line) /\ recognized(toLowerCase(trim(line)))
  \/ Rerun

\* C19: cancel() is idempotent; it leaves no timer armed, and the timer it
\* canceled is never the debouncer's timer again and is never armed again, so
\* that its callback, if it had fired and waited for the run in flight,
\* resumes to do nothing: no runAfterChanges(), no run, no timer armed, also
\* when a new timer was armed meanwhile.
CanceledTimerNeverActs ==
  [][/\ cancel(cancel(Debouncer)) = cancel(Debouncer)
     /\ cancel(Debouncer).timer = 0
     /\ ~cancel(Debouncer).again
     /\ \A t \in cancel(Debouncer).timeouts : t.id # timer
     /\ Cancels => (timer' = 0 /\ ~again' /\ timeouts' = {})
     /\ \A id \in CanceledCallbacks \cup (IF Cancels THEN {timer} \ {0} ELSE {}) :
          /\ timer' # id
          /\ \A t \in timeouts' : t.id # id
     /\ \A t \in timeouts' \ timeouts : t.id > timerCount /\ t.id = timer'
     /\ (/\ microtasks # <<>>
         /\ Head(microtasks).kind = "debounce"
         /\ Head(microtasks).timer # timer)
          => /\ NotDispatched
             /\ lastDecision' = lastDecision
             /\ dirtyStates' = dirtyStates
             /\ UNCHANGED debouncerVars]_vars

\* The callback of timer 1 fired and waited for the run; the timer was
\* canceled by a command and timer 2 armed by a later event; now the run has
\* settled and the callback of timer 1 resumes.
CanceledCallbackResumes ==
  /\ microtasks # <<>>
  /\ Head(microtasks).kind = "debounce"
  /\ Head(microtasks).timer = 1
  /\ timer = 2
  /\ timeouts = {[id |-> 2, delay |-> 400]}
  /\ CommandPending

\* C20: the command `u` dispatches a run for exactly the file list that was
\* handed to the engine for the previous run, with updateSnapshots.
SnapshotsUpdatedForPreviousFiles ==
  [][(Rerun /\ Head(microtasks).data = <<"u">>)
       => /\ Dispatched
          /\ lastRun'.files = lastRun.files
          /\ lastRun'.updateSnapshots]_vars

----------------------------------------------------------------------------
\* C21: the commands `r` and `rs` each dispatch a run of every test file:
\* no specific files, neither runOnlyExclusive nor updateSnapshots, whatever
\* the dirty batch and the files with exclusive tests are.
RerunAllUnfiltered ==
  [][(Rerun /\ Head(microtasks).data \in {<<"r">>, <<"r", "s">>})
       => /\ Dispatched
          /\ lastRun'.specificFiles = <<>>
          /\ lastRun'.files = <<>>
          /\ ~lastRun'.runOnlyExclusive
          /\ ~lastRun'.updateSnapshots]_vars

\* A command reran every file although a file had exclusive tests and a batch
\* was pending: the only timer ever armed never handed its batch off.
RerunAllDespiteExclusiveAndBatch ==
  /\ engineCalls = 2
  /\ lastRun.files = <<>>
  /\ ~lastRun.updateSnapshots
  /\ filesWithExclusiveTests # <<>>
  /\ timerCount = 1
  /\ lastDecision = NoDecision

----------------------------------------------------------------------------
\* The lines of at most three of these characters
Characters == {"r", "R", "s", "S", "u", "U", "q", " ", "\n"}

TypedLines == UNION {[1..n -> Characters] : n \in 0..3}

Commands == {<<"r">>, <<"r", "s">>, <<"u">>}

UpperCase == [c \in {"r", "s", "u"} |-> CASE c = "r" -> "R" [] c = "s" -> "S" [] OTHER -> "U"]

\* The line is the word in either case, with whitespace around it
Spells(line, word) ==
  \E first \in 1..Len(line) + 1 :
    /\ first + Len(word) - 1 <= Len(line)
    /\ \A i \in 1..Len(line) :
         IF i < first \/ i > first + Len(word) - 1
         THEN line[i] \in {" ", "\n"}
         ELSE line[i] \in {word[i - first + 1], UpperCase[word[i - first + 1]]}

CommandsOf(line) == {word \in Commands : Spells(line, word)}

\* The lines the handler takes for commands are the lines that spell one
CommandsRecognized ==
  \A typed \in TypedLines :
    recognized(toLowerCase(trim(typed))) <=> CommandsOf(typed) # {}

\* Everything a line that is no command must leave alone
besidesInputs ==
  <<pc, options, budget, clearLogOnNextRun, runVector, previousFiles, busy,
    testDependencies, temporaryFiles, touchedFiles, filesWithExclusiveTests,
    filesWithFailures, dirtyStates, timer, again, timeouts, awaiting,
    microtasks, pendingThrow, runs, engineCalls, lastRun, lastDecision,
    timerCount>>

\* C22: a line of control input is a command when, trimmed and lowercased, it
\* is r, rs or u; the handler of a command waits with that word; any other
\* line is ignored: it dispatches no run, leaves the debounce timer and the
\* dirty batch alone and changes nothing.
OtherLinesIgnored ==
  [][\A line \in Lines :
       StdinData(line) =>
         /\ CommandsRecognized
         /\ IF CommandsOf(line) = {}
            THEN UNCHANGED besidesInputs
            ELSE /\ Len(Continuations') = Len(Continuations) + 1
                 /\ Continuations'[Len(Continuations')].kind = "stdin"
                 /\ CommandsOf(line) = {Continuations'[Len(Continuations')].data}]_vars

\* A line that is no command was typed around the one fs event of the first
\* run, which has yet to report anything: the timer is armed as the event
\* left it and the batch is pending.
LineIgnoredWhileTimerPending ==
  /\ inputs = 2
  /\ engineCalls = 1
  /\ \E r \in runs : ~r.emitted
  /\ Continuations = <<>>
  /\ timerCount = 1
  /\ timer = 1
  /\ ~again
  /\ timeouts = {[id |-> 1, delay |-> 400]}
  /\ DirtyBatch = {"t1"}

----------------------------------------------------------------------------
\* C23: from the moment a command is received until its run is dispatched,
\* no batch is handed off and only a command dispatches a run; when the
\* command's run is handed to run(), no timer is armed and no callback of a
\* timer, fired before or after the command was received, is still to act.
CommandRunsBeforeChanges ==
  [][/\ CommandPending => ~RunAfterChanges
     /\ (CommandPending /\ Dispatched) => Rerun
     /\ Rerun => (timer' = 0 /\ timeouts' = {} /\ LiveCallbacks' = 0)]_vars

\* The run has settled and three callbacks are to resume in this order: that
\* of a timer that fired before the command was received, the command's, and
\* that of a timer armed and fired while the command waited, which is still
\* the debouncer's timer.
CommandBetweenTimerCallbacks ==
  /\ Len(microtasks) = 3
  /\ microtasks[1].kind = "debounce" /\ microtasks[1].timer # timer
  /\ microtasks[2].kind = "stdin"
  /\ microtasks[3].kind = "debounce" /\ microtasks[3].timer = timer

----------------------------------------------------------------------------
\* The batch without the paths of a set
BatchWithout(paths) ==
  [path \in Paths |-> IF path \in paths THEN "none" ELSE dirtyStates[path]]

\* This runAfterChanges() call decides, reruns and cleans the ledgers as it
\* would for the batch without the paths of the set, were the given files
\* touched and none temporary.
DecidesWithout(paths, touched) ==
  LET decision == runAfterChanges(BatchWithout(paths), touched, {}, testDependencies,
                                  filesWithExclusiveTests, filesWithFailures)
  IN /\ lastDecision'.reruns = decision.reruns
     /\ decision.reruns => /\ Dispatched
                           /\ lastRun'.specificFiles = decision.specificFiles
     /\ ~decision.reruns => NotDispatched
     /\ testDependencies' = decision.ledgers.testDependencies
     /\ filesWithExclusiveTests' = decision.ledgers.filesWithExclusiveTests

\* A report of touched files enters the set; a batch is decided without its
\* touched paths, and they are touched no longer.
TouchedIgnoredOnce ==
  /\ \A r \in runs : \A files \in TouchedReports :
       TouchedFiles(r, files) => files.changedFiles \subseteq touchedFiles'
  /\ RunAfterChanges => /\ DecidesWithout(touchedFiles \cup temporaryFiles, {})
                        /\ touchedFiles' \cap DirtyBatch = {}

\* C24 as claimed: a reported path stays touched until it reappears in a
\* batch, whatever is dispatched meanwhile; the batch it reappears in is
\* decided without it and consumes it, so that its next event counts.
TouchedUntilReappearance ==
  [][/\ TouchedIgnoredOnce
     /\ \A path \in touchedFiles \ touchedFiles' :
          RunAfterChanges /\ dirtyStates[path] # "none"]_vars

\* C24: a reported path stays touched until it reappears in a batch or a run
\* is dispatched, which clears the set; the batch it reappears in is decided
\* without it and consumes it, so that its next event counts.
TouchedUntilReappearanceOrDispatch ==
  [][/\ TouchedIgnoredOnce
     /\ Dispatched => touchedFiles' = {}
     /\ \A path \in touchedFiles \ touchedFiles' :
          Dispatched \/ (RunAfterChanges /\ dirtyStates[path] # "none")]_vars

\* The change of s1, a source no provider or glob ignores and no run called
\* temporary, was a batch by itself and no run followed: s1 was touched, and
\* it is touched no longer.
TouchedSourceConsumed ==
  /\ lastDecision.dirtyStates = [NoDirtyStates EXCEPT !["s1"] = "change"]
  /\ ~lastDecision.reruns
  /\ temporaryFiles = {}
  /\ touchedFiles = {}

----------------------------------------------------------------------------
\* C25: the set of temporary files only grows, by the temporaryFiles of every
\* touched-files report, whatever batches, dispatches and commands follow;
\* and every batch is decided without its temporary paths.
TemporaryFilesKept ==
  [][/\ temporaryFiles \subseteq temporaryFiles'
     /\ \A r \in runs : \A files \in TouchedReports :
          TouchedFiles(r, files) => files.temporaryFiles \subseteq temporaryFiles'
     /\ RunAfterChanges => DecidesWithout(temporaryFiles, touchedFiles)]_vars

\* The first run called s2 temporary (and t2 touched); the change of t1 was
\* handed off and dispatched the second run, which cleared the touched files;
\* then the change of s2, a batch by itself, was handed off and no run
\* followed.
TemporarySourceSuppressedAfterDispatch ==
  /\ inputs = 3
  /\ engineCalls = 2
  /\ timerCount = 2
  /\ lastRun.specificFiles = <<"t1">>
  /\ lastDecision.dirtyStates = [NoDirtyStates EXCEPT !["s2"] = "change"]
  /\ ~lastDecision.reruns
  /\ temporaryFiles = {"s2"}
  /\ touchedFiles = {}

----------------------------------------------------------------------------
\* C26: when the promise of a run settles, fulfilled or rejected, the
\* reporter is told the end of the run once: endRun() and the line of hints.
ReporterToldEverySettlement ==
  [][\A r \in runs : \A outcome \in Outcomes :
       RunSettles(r, outcome) =>
         reporterCalls(outcome) = [endRun |-> 1, writeLine |-> 1]]_vars

----------------------------------------------------------------------------
\* C27: every rejection of the promise of api.run() schedules one throw, and
\* no other step does: not a fulfilled run, whatever its failure counters,
\* nor the telemetry of failures; a scheduled throw stays scheduled until it
\* is thrown, one at a time; and nothing but a thrown rejection ends the
\* process.
RejectionsRethrownOnce ==
  [][/\ \A r \in runs :
          RunSettles(r, "rejected") => pendingThrow' = pendingThrow + 1
     /\ pendingThrow' > pendingThrow => \E r \in runs : RunSettles(r, "rejected")
     /\ pendingThrow' < pendingThrow => /\ \E exits \in BOOLEAN : Rethrow(exits)
                                        /\ pendingThrow' = pendingThrow - 1
     /\ (pc = "watching" /\ pc' = "exited") => Rethrow(TRUE)]_vars

\* Two runs in flight were both rejected before either throw: two throws are
\* scheduled.
TwoRethrowsScheduled == pendingThrow = 2

----------------------------------------------------------------------------
\* The paths the providers resolve a test file to
ResolvedPaths(file) == {providers[i].resolveTestFile[file] : i \in DOMAIN providers}

\* Each entry's list is non-empty and holds the paths its file resolves to
EntriesHoldResolvedPaths(deps) ==
  \A i \in DOMAIN deps :
    /\ deps[i].dependencies # <<>>
    /\ ResolvedPaths(deps[i].file) \subseteq SeqToSet(deps[i].dependencies)

\* The list an accessed-snapshots report leaves when no provider adds to it
Reported(filename) ==
  IF classify(filename).isIgnoredByWatcher THEN {} ELSE {filename}

----------------------------------------------------------------------------
EntriesOf(deps, file) == SelectSeq(deps, LAMBDA dep : dep.file = file)

\* C29: after an accessed-snapshots report for a test file, the file depends
\* on exactly the reported path, unless the watcher ignores it, and the
\* file's provider-resolved path(s), whatever its entry held before; the
\* entries of the other files are as they were.
ReportReplacesEntry ==
  [][\A r \in runs : \A testFile \in TestFiles : \A filename \in SnapshotFiles :
       AccessedSnapshots(r, testFile, filename) =>
         /\ \A path \in Paths :
              includes(dependentsOf(testDependencies', path), testFile)
                <=> path \in Reported(filename) \cup ResolvedPaths(testFile)
         /\ \A other \in TestFiles \ {testFile} :
              EntriesOf(testDependencies', other) = EntriesOf(testDependencies, other)]_vars

\* The reports of the runs have left t1 depending on s2 alone and t2 on s1
\* alone, the entry of t1 being the older one.
EntriesAsLastReported ==
  /\ providers = <<>>
  /\ inputs = 3
  /\ testDependencies = <<[file |-> "t1", dependencies |-> <<"s2">>],
                          [file |-> "t2", dependencies |-> <<"s1">>]>>

----------------------------------------------------------------------------
\* C30: the run a command dispatches is told not to clear the log, and the
\* dispatch leaves this.clearLogOnNextRun set; it stays set unless a run
\* settles with failures, and any later run that no command dispatches is
\* told what the flag then says.
CommandKeepsLogOnce ==
  [][/\ Rerun => /\ Dispatched
                 /\ ~lastRun'.clearLogOnNextRun
                 /\ clearLogOnNextRun'
     /\ (Dispatched /\ ~Rerun /\ runVector > 0)
          => lastRun'.clearLogOnNextRun = clearLogOnNextRun
     /\ (clearLogOnNextRun /\ ~clearLogOnNextRun')
          => \E r \in runs : RunSettles(r, "failed")]_vars

\* Three runs and one timer: the second run was a command's, and the third,
\* dispatched for a change of t1, is told to clear the log.
LogClearedAfterCommandRun ==
  /\ engineCalls = 3
  /\ timerCount = 1
  /\ inputs = 2
  /\ lastRun.runVector = 3
  /\ lastRun.specificFiles = <<"t1">>
  /\ lastRun.clearLogOnNextRun

----------------------------------------------------------------------------
\* The command `r` or `rs` resumes and reruns everything
FullRerunCommand == Rerun /\ Head(microtasks).data \in {<<"r">>, <<"r", "s">>}

\* C31 as claimed: a run that settles without failures leaves clearing
\* enabled and the next change-triggered run is told so; a run that settles
\* with failures leaves it suppressed, and only a full rerun command enables
\* it again.
ClearingSuppressedUntilRerunCommand ==
  [][/\ \A r \in runs :
          /\ RunSettles(r, "passed") => clearLogOnNextRun'
          /\ RunSettles(r, "failed") => ~clearLogOnNextRun'
     /\ (RunAfterChanges /\ Dispatched)
          => lastRun'.clearLogOnNextRun = clearLogOnNextRun
     /\ (~clearLogOnNextRun /\ clearLogOnNextRun') => FullRerunCommand]_vars

\* C31: a run that settles with failures leaves clearing suppressed, one that
\* settles without leaves the flag as it is; the next change-triggered run is
\* told what the flag says; and every dispatch, whether of a batch or of a
\* command, enables clearing again for the runs after it: clearing is
\* suppressed exactly when a run has settled with failures since the last
\* dispatch.
ClearingSuppressedForOneRun ==
  [][/\ \A r \in runs :
          /\ RunSettles(r, "failed") => ~clearLogOnNextRun'
          /\ (RunSettles(r, "passed") /\ clearLogOnNextRun) => clearLogOnNextRun'
     /\ (RunAfterChanges /\ Dispatched)
          => lastRun'.clearLogOnNextRun = clearLogOnNextRun
     /\ Dispatched => clearLogOnNextRun'
     /\ (~clearLogOnNextRun /\ clearLogOnNextRun') => Dispatched
     /\ (clearLogOnNextRun /\ ~clearLogOnNextRun')
          => \E r \in runs : RunSettles(r, "failed")]_vars

\* The one input was a change of t1; the run it led to, the second, was told
\* not to clear the log, the first having failed; it has settled, and
\* clearing is enabled again though nothing was typed.
ClearingEnabledWithoutCommand ==
  /\ inputs = 1
  /\ engineCalls = 2
  /\ lastRun.specificFiles = <<"t1">>
  /\ ~lastRun.clearLogOnNextRun
  /\ runs = {}
  /\ clearLogOnNextRun

----------------------------------------------------------------------------
\* The pending batch holds a changed (not deleted) test file or a changed
\* helper or source, no run has reported files as touched or temporary, and
\* no further input arrives.
ChangePending ==
  /\ \E path \in DirtyBatch :
        /\ dirtyStates[path] = "change"
        /\ ~classify(path).isIgnoredByWatcher
  /\ touchedFiles = {} /\ temporaryFiles = {}
  /\ inputs = budget

\* C32: with timers firing and runs settling, once the input has stopped, a
\* pending batch with a surviving changed test, helper or source leads to
\* another api.run() call (of runAfterChanges() or of a command that
\* discards the batch), also with failures on record.
ChangesLeadToRun ==
  \A n \in 0..MaxResponsiveInputs :
     (ChangePending /\ engineCalls = n) ~> (engineCalls > n)

\* Failures are on record, and the batch with the change of s1 that the last
\* of the inputs recorded has led to a dispatch by runAfterChanges().
ChangeRunWithFailuresRecorded ==
  /\ inputs = budget
  /\ filesWithFailures # <<>>
  /\ lastDecision.reruns
  /\ lastDecision.dirtyStates["s1"] = "change"
  /\ lastRun.runVector = engineCalls
  /\ lastRun.runVector > 1
  /\ dirtyStates = NoDirtyStates

----------------------------------------------------------------------------
\* C33: the run a command dispatches when it discards the pending batch
\* covers every surviving changed test file of that batch: api.run() is
\* handed no files (everything runs) or files that contain them.
CommandRunCoversBatch ==
  [][Rerun => \/ lastRun'.files = <<>>
              \/ \A path \in TestChanged : includes(lastRun'.files, path)]_vars

----------------------------------------------------------------------------
\* C34: when run() is called with specific files, api.run() is handed a
\* non-empty list of files, all of them among the reconciled ones: the
\* filename filter narrows the run and never empties it.
FilterOnlyNarrows ==
  lastRun.specificFiles # <<>> =>
     /\ lastRun.files # <<>>
     /\ SeqToSet(lastRun.files) \subseteq SeqToSet(lastRun.reconciled)

----------------------------------------------------------------------------
\* C35: the dependency list holds at most one entry per test file, the list
\* of files with exclusive tests names no file twice, and the failure ledger
\* holds at most one record per file.
OneEntryPerFile ==
  /\ NoDuplicates([i \in DOMAIN testDependencies |-> testDependencies[i].file])
  /\ NoDuplicates(filesWithExclusiveTests)
  /\ NoDuplicates([i \in DOMAIN filesWithFailures |-> filesWithFailures[i].file])

\* t1 failed twice and was reported to have exclusive tests: the second
\* failure was counted on the record of the first.
SecondFailureOnSameRecord ==
  /\ Len(filesWithFailures) = 1
  /\ filesWithFailures[1].file = "t1"
  /\ filesWithFailures[1].count = 2
  /\ filesWithExclusiveTests = <<"t1">>

----------------------------------------------------------------------------
\* C36: the previousFailures handed to api.run() counts no failure recorded
\* for a file the run executes: it is at most the sum over the records of
\* the other files, and 0 for a run of every test file.
PreviousFailuresOfOtherFiles ==
  [][Dispatched =>
       lastRun'.previousFailures <=
          CountOver(filesWithFailures,
                    {i \in DOMAIN filesWithFailures :
                       ~includes(planFiles(lastRun'.files), filesWithFailures[i].file)})]_vars

----------------------------------------------------------------------------
\* The test files whose deletion is the last fs event recorded for them and
\* has not been processed yet
DeletionPending == {path \in TestFiles : dirtyStates[path] = "unlink"}

\* What a dispatch does with a test file whose deletion is pending: the file
\* is not among the files handed to api.run() and previousFailures counts
\* none of its records.
DeletedFileLeftOut(path) ==
  /\ ~includes(lastRun'.files, path)
  /\ lastRun'.previousFailures <=
        CountOver(filesWithFailures,
                  {i \in DOMAIN filesWithFailures : filesWithFailures[i].file # path})

\* C37: a test file whose deletion has been observed, with no change of the
\* path observed since, is in no dispatched file list and its failures are in
\* no previousFailures, whether the dispatch is that of runAfterChanges() or
\* that of a command that comes before the batch is processed.
DeletedTestsNeverDispatched ==
  [][Dispatched => \A path \in DeletionPending : DeletedFileLeftOut(path)]_vars

----------------------------------------------------------------------------
\* C38: the first instructions plan() yields have no files, firstRun = true
\* and updateSnapshots = false; all later ones have firstRun = false; and
\* instructions have updateSnapshots = true exactly when a line `u` was read
\* since the instructions before them were built.
InstructionFlags ==
  [][PlanYields =>
       /\ yields = 0 => /\ instructions'.files = <<>>
                        /\ instructions'.firstRun
                        /\ ~instructions'.updateSnapshots
       /\ yields > 0 => ~instructions'.firstRun
       /\ instructions'.updateSnapshots = (<<"u">> \in received)]_vars

\* The third instructions: not a first run, snapshots are updated, and the
\* files are those of a batch, which the debounce signalled before `u` was
\* read.
UpdateSnapshotsOfBatch ==
  /\ yields = 3
  /\ ~instructions.firstRun
  /\ instructions.updateSnapshots
  /\ instructions.files = <<"t2">>

\* C40: the instructions yielded next after a line `r`, the only line read
\* since the instructions before them, have no files (every test file runs)
\* and updateSnapshots = false, also when the debounce has signalled a batch
\* that the loop has not taken yet.
RerunCommandUnfiltered ==
  [][(PlanYields /\ received = {<<"r">>}) =>
       /\ instructions'.files = <<>>
       /\ ~instructions'.updateSnapshots]_vars

\* C39: the test files of a batch the debounce has signalled are among the
\* files of instructions yielded later, or such instructions have no files
\* (every test file runs), also when `changed` was settled already.
SignalledFilesYielded ==
  \A file \in TestFiles : (file \in finalized) ~> (file \notin finalized)

============================================================================
